---------------------------- MODULE Spec2Model ----------------------------
(***************************************************************************)
(* RomulusClock (src/romulus_clock.py): a poller that derives a "market    *)
(* time" from an ordered list of Dexscreener pairs, with bounded retries   *)
(* and exponential backoff per pair, a fallback to the local clock, and a  *)
(* shared ClockState record read by a Flask thread.                        *)
(*                                                                         *)
(* Granularity.  The coroutines (start, stop, _polling_loop and the        *)
(* _update_clock they call) run on one asyncio event loop: code between    *)
(* two awaits is one action.  The block of _update_clock that writes the   *)
(* ClockState (lines 94-104) has no await, so no coroutine runs inside it: *)
(* it is the one action Publish.  The Flask thread does run inside it, so  *)
(* the specification with that thread (SpecRead) takes the block one field *)
(* write at a time, every coroutine action being guarded by ~Busy.         *)
(*                                                                         *)
(* Time.  now is the wall clock datetime.now() reads, in whole seconds.    *)
(* asyncio.sleep is a suspension point whose requested delay is recorded   *)
(* (slept, and the pc "sleep"); the model does not tie the moment a        *)
(* sleeper is resumed to the wall clock.                                   *)
(***************************************************************************)
EXTENDS Integers, Sequences, FiniteSets, TLC

(* Bounds of the model. *)
MaxTime == 1
MaxStarts == 2
MaxErrors == 5
MaxWait == 30

(* Program constants. *)
max_retries == 3
max_error_count == 5
poll_interval == 10
NumSources == 2

Procs == 1..MaxStarts
Sources == 1..NumSources

(* The chain_id of each pair of PAIR_LIST (lines 198-199). *)
chain_id == [j \in Sources |-> "ethereum"]

(* ------------------------------------------------------------------ *)
(* Values.                                                            *)
(* ------------------------------------------------------------------ *)

(* A datetime: whole seconds since the epoch and the milliseconds within
   the second.  None (Optional[datetime] = None) is the record below. *)
None == [sec |-> 0 - 1, ms |-> 0]

(* datetime.now(timezone.utc) when the wall clock shows sec. *)
Dt(sec) == [sec |-> sec, ms |-> 0]

DtLeq(a, b) == a.sec < b.sec \/ (a.sec = b.sec /\ a.ms <= b.ms)

(* pair_info.get('pairCreatedAt') when the key is absent. *)
NoTs == 0 - 1

(* The pairCreatedAt values (epoch milliseconds) a response may carry. *)
TsValues == {0, 1500, 2000}

(* if timestamp_ms: -- None and 0 are falsy. *)
Truthy(ts) == ts # NoTs /\ ts # 0

FromTimestampMs_Seconds(ts) == [sec |-> ts, ms |-> 0]

(* datetime.fromtimestamp(timestamp_ms / 1000, tz=timezone.utc) *)
FromTimestampMs(ts) == [sec |-> ts \div 1000, ms |-> ts % 1000]

(* What one session.get(url) can bring: an asyncio.TimeoutError, another
   exception, a non-200 status, or a 200 whose JSON has pairCreatedAt or
   lacks it. *)
Responses ==
    {[exc |-> "TimeoutError", status |-> 0, ts |-> NoTs],
     [exc |-> "Exception", status |-> 0, ts |-> NoTs],
     [exc |-> "none", status |-> 500, ts |-> NoTs]}
    \cup {[exc |-> "none", status |-> 200, ts |-> t] : t \in TsValues \cup {NoTs}}

(* The branch of lines 55-74 a response takes. *)
Kind(r) ==
    IF r.exc = "TimeoutError" THEN "timeout"
    ELSE IF r.exc # "none" THEN "error"
    ELSE IF r.status # 200 THEN "status"
    ELSE IF Truthy(r.ts) THEN "ok"
    ELSE "missing"

(* The failures the specification calls retryable. *)
Retryable == {"timeout", "error", "status"}

(* threshold_seconds: int = None (line 155) *)
NoThreshold == 0 - 1

(* The thresholds is_stale is called with. *)
Thresholds == {NoThreshold, 0, poll_interval}

(* (a - b).total_seconds(), in milliseconds. *)
TotalMs(a, b) == (a.sec - b.sec) * 1000 + (a.ms - b.ms)

Exceeds_OrEqual(d, t) == d >= t

(* time_since_update.total_seconds() > threshold_seconds (line 163) *)
Exceeds(d, t) == d > t

RECURSIVE Pow2(_)
Pow2(k) == IF k = 0 THEN 1 ELSE 2 * Pow2(k - 1)

RECURSIVE SumSeq(_)
SumSeq(s) == IF s = <<>> THEN 0 ELSE Head(s) + SumSeq(Tail(s))

BackoffDelay_Linear(attempt) == 2 * attempt

(* await asyncio.sleep(2 ** attempt) *)
BackoffDelay(attempt) == Pow2(attempt)

SleepsAfter_Always(attempt) == attempt < max_retries

(* if attempt < self.max_retries - 1: *)
SleepsAfter(attempt) == attempt < max_retries - 1

MoreAttempts_OneLess(attempt) == attempt + 1 < max_retries - 1

(* for attempt in range(self.max_retries): is there an attempt after this
   one? *)
MoreAttempts(attempt) == attempt + 1 < max_retries

IsHealthy_OffByOne(ec) == ec <= max_error_count

(* self.state.error_count < self.max_error_count *)
IsHealthy(ec) == ec < max_error_count

(* The writes of _update_clock to self.state, as functions of the record. *)

WriteErrorCount_NoReset(s, fell) ==
    [s EXCEPT !.error_count = IF fell THEN @ + 1 ELSE @]

(* Lines 94-99: error_count += 1 on the fallback, = 0 otherwise. *)
WriteErrorCount(s, fell) ==
    [s EXCEPT !.error_count = IF fell THEN @ + 1 ELSE 0]

WriteMarketTime_Clear(s, mt) == [s EXCEPT !.market_time = None]

(* Line 101. *)
WriteMarketTime(s, mt) == [s EXCEPT !.market_time = mt]

(* Line 102. *)
WriteSource(s, src) == [s EXCEPT !.source = src]

WriteLastUpdated_Reversed(s, t) == [s EXCEPT !.last_updated = Dt(MaxTime - t.sec)]

(* Line 103. *)
WriteLastUpdated(s, t) == [s EXCEPT !.last_updated = t]

(* Line 104. *)
WriteHealthy(s) == [s EXCEPT !.is_healthy = IsHealthy(s.error_count)]

(* Lines 94-104 as a whole: fell is "not market_time" of line 94, mt the
   time published, t the clock read at line 103. *)
Published(s, fell, mt, src, t) ==
    WriteHealthy(WriteLastUpdated(WriteSource(WriteMarketTime(
        WriteErrorCount(s, fell), mt), src), t))

(* ------------------------------------------------------------------ *)
(* State.                                                             *)
(* ------------------------------------------------------------------ *)
VARIABLES
    state,      \* self.state, the ClockState record
    running,    \* self.running
    session,    \* self.session and the ClientSessions made so far: cur is
                \* the one self.session holds (0: None), open those not
                \* closed, made their number
    now,        \* the wall clock, in seconds
    task,       \* the coroutines: task[p] is the p-th start() that went on,
                \* and the _polling_loop it creates
    rd,         \* the Flask thread inside get_clock_data
    committed,  \* history: ClockState as the last finished cycle left it
    last,       \* history: the cycle that ended last
    api         \* history: the last call of start() or stop(): "start" went
                \* on to line 126, "again" returned at line 124

vars == <<state, running, session, now, task, rd, committed, last, api>>

_get_fallback_time_Epoch == Dt(0)

(* def _get_fallback_time(self): return datetime.now(timezone.utc) *)
_get_fallback_time == Dt(now)

ClockState0 ==
    [market_time |-> None, source |-> "system", last_updated |-> None,
     error_count |-> 0, is_healthy |-> TRUE]

NoTries == [j \in Sources |-> 0]
NoSleeps == [j \in Sources |-> <<>>]
AllRetr == [j \in Sources |-> TRUE]

(* A coroutine before its start() call.  via is the session its request in
   flight was made on.  ts, tried, slept, retr and lastKind are history of
   the cycle it is in: the pairCreatedAt that gave its time, the requests
   made to each pair, the delays slept after them, whether every answer of
   the pair was a retryable failure or a time, and the last answer. *)
Task0 ==
    [pc |-> "idle", phase |-> "prime", idx |-> 0, attempt |-> 0, via |-> 0,
     market_time |-> None, source |-> "system", ts |-> NoTs,
     tried |-> NoTries, slept |-> NoSleeps, retr |-> AllRetr,
     lastKind |-> "none"]

(* No cycle has ended yet. *)
Last0 == [by |-> 0, outcome |-> "none", ec0 |-> 0, clock |-> 0]

(* The Flask thread outside get_clock_data, get_clock_health and is_stale.
   healthy and isStale are the fields of the health response; thr and at
   are history: the threshold of an is_stale call and the clock it read.
   cands is history: the complete
   records (ClockState as a finished cycle left it, or the initial one) that
   stood at some moment of the call and agree with every field the call
   has put in its result so far. *)
Rd0 ==
    [pc |-> "idle", result |-> "none", market_time |-> None, source |-> "none",
     last_updated |-> None, is_healthy |-> FALSE, error_count |-> 0,
     healthy |-> FALSE, isStale |-> FALSE, thr |-> NoThreshold, at |-> 0,
     got |-> {}, cands |-> {}]

PubPcs == {"publish", "pub_mt", "pub_src", "pub_lu", "pub_h"}

(* A coroutine is inside lines 94-104: the event loop runs nothing else. *)
Busy == \E p \in Procs : task[p].pc \in PubPcs

Init ==
    /\ state = ClockState0
    /\ running = FALSE
    /\ session = [cur |-> 0, open |-> {}, made |-> 0]
    /\ now = 0
    /\ task = [p \in Procs |-> Task0]
    /\ rd = Rd0
    /\ committed = ClockState0
    /\ last = Last0
    /\ api = "none"

(* async def _create_session(self) (lines 40-42) *)
_create_session ==
    [cur |-> session.made + 1, open |-> session.open \cup {session.made + 1},
     made |-> session.made + 1]

_close_session_Noop == session

(* async def _close_session(self) (lines 44-46): if self.session: close *)
_close_session == [session EXCEPT !.open = @ \ {session.cur}]

(* Lines 49-50, on entering _fetch_dexscreener_time: a session is made if
   self.session is None.  A closed session is not None. *)
EnterFetch == IF session.cur = 0 THEN _create_session ELSE session

AlreadyRunning_Never == FALSE

(* if self.running: (line 122) *)
AlreadyRunning == running

WhileRunning_Always == TRUE

(* while self.running: (line 111) *)
WhileRunning == running

(* ------------------------------------------------------------------ *)
(* _fetch_dexscreener_time and the loop of _update_clock over         *)
(* pair_list.                                                         *)
(* ------------------------------------------------------------------ *)

(* Entering _update_clock (lines 85-89) and, in the first fetch, the first
   session.get (line 56), on session sid, where the coroutine suspends.
   sid is self.session after lines 49-50. *)
BeginCycle(t, sid) ==
    [t EXCEPT !.pc = "fetch", !.idx = 1, !.attempt = 0, !.via = sid,
              !.market_time = None, !.source = "system", !.ts = NoTs,
              !.tried = [j \in Sources |-> IF j = 1 THEN 1 ELSE 0],
              !.slept = NoSleeps, !.retr = AllRetr, !.lastKind = "none"]

(* Lines 63-65 and 90-92: the fetch returns a datetime and the loop over
   pair_list breaks; line 94 is next. *)
Succeed(t, r) ==
    [t EXCEPT !.market_time = FromTimestampMs(r.ts), !.ts = r.ts,
              !.source = "Dexscreener", !.pc = "publish"]

(* The end of one iteration of "for attempt in range(self.max_retries)"
   (line 54): the next attempt on the same pair, or return None (line 79)
   and with it the next pair of pair_list (line 88), or the end of that
   loop with market_time None. *)
Continue(t) ==
    IF MoreAttempts(t.attempt)
    THEN [t EXCEPT !.attempt = @ + 1, !.pc = "fetch", !.via = session.cur,
                   !.tried[t.idx] = @ + 1]
    ELSE IF t.idx < NumSources
    THEN [t EXCEPT !.idx = @ + 1, !.attempt = 0, !.pc = "fetch",
                   !.via = EnterFetch.cur, !.tried[t.idx + 1] = 1]
    ELSE [t EXCEPT !.pc = "publish"]

(* A failed attempt (lines 66-74), then lines 76-77: sleep 2 ** attempt
   unless this was the last attempt. *)
Failed(t) ==
    IF SleepsAfter(t.attempt)
    THEN [t EXCEPT !.pc = "backoff",
                   !.slept[t.idx] = Append(@, BackoffDelay(t.attempt))]
    ELSE Continue(t)

(* self.session after task t went on to u: the fetch of the next pair was
   entered, or not. *)
SessionAfter(t, u) ==
    IF u.pc = "fetch" /\ u.idx # t.idx THEN EnterFetch ELSE session

(* The request of task p ends with r (lines 56-74).  On a session that
   stop() has closed the request raises, which line 73 catches.
   error_count is capped by MaxErrors: the answer that would end a cycle
   in the fallback is not taken at the cap. *)
Respond(p, r) ==
    LET k == Kind(r)
        t == [task[p] EXCEPT !.lastKind = k,
                             !.retr[task[p].idx] = @ /\ k \in Retryable \cup {"ok"}]
        u == IF k = "ok" THEN Succeed(t, r) ELSE Failed(t)
    IN /\ task[p].pc = "fetch"
       /\ ~Busy
       /\ task[p].via \notin session.open => r.exc = "Exception"
       /\ (u.pc = "publish" /\ u.market_time = None) => state.error_count < MaxErrors
       /\ task' = [task EXCEPT ![p] = u]
       /\ session' = SessionAfter(task[p], u)
       /\ UNCHANGED <<state, running, now, rd, committed, last, api>>

(* The backoff sleep of line 77 is over. *)
Retry(p) ==
    /\ task[p].pc = "backoff"
    /\ ~Busy
    /\ task' = [task EXCEPT ![p] = Continue(task[p])]
    /\ session' = SessionAfter(task[p], task'[p])
    /\ UNCHANGED <<state, running, now, rd, committed, last, api>>

Caught_Exits(t) == [t EXCEPT !.pc = "stopped"]

(* Lines 115-117: the polling loop catches the exception, logs it and
   sleeps poll_interval. *)
Caught(t) == [t EXCEPT !.pc = "sleep"]

(* An exception leaves _update_clock at one of its awaits.  In the polling
   loop line 115 catches it; in start() (line 128) nothing does, start()
   raises and line 129 is not reached. *)
Raise(p) ==
    /\ task[p].pc \in {"fetch", "backoff"}
    /\ ~Busy
    /\ task' = [task EXCEPT ![p] =
                   IF task[p].phase = "loop" THEN Caught(task[p])
                   ELSE [task[p] EXCEPT !.pc = "raised"]]
    /\ last' = [by |-> p, outcome |-> "raised", ec0 |-> state.error_count,
                clock |-> now]
    /\ UNCHANGED <<state, running, session, now, rd, committed, api>>

(* ------------------------------------------------------------------ *)
(* Lines 94-104 of _update_clock: the writes to self.state.           *)
(* ------------------------------------------------------------------ *)

(* if not market_time: (line 94) *)
FellBack(t) == t.market_time = None

(* After the cycle: the priming cycle returns to start(), which creates the
   polling task (line 129); a cycle of the loop sleeps poll_interval
   (line 114). *)
AfterCycle(t) ==
    IF t.phase = "prime" THEN [t EXCEPT !.phase = "loop", !.pc = "loop"]
    ELSE [t EXCEPT !.pc = "sleep"]

(* Record r has the value the reader d returned for every field d has read
   for its result. *)
Agrees(r, d) ==
    /\ "market_time" \in d.got => r.market_time = d.market_time
    /\ "source" \in d.got => r.source = d.source
    /\ "last_updated" \in d.got => r.last_updated = d.last_updated
    /\ "is_healthy" \in d.got => r.is_healthy = d.is_healthy
    /\ "error_count" \in d.got => r.error_count = d.error_count

(* History: a cycle has left the complete record s during the call d, or
   after it when its writes had begun during the call. *)
Noted(d, s) ==
    [d EXCEPT !.cands = IF d.pc # "idle" /\ Agrees(s, d)
                        THEN @ \cup {s} ELSE @]

(* History: the cycle of p ends by reaching line 94. *)
Ended(p) ==
    [by |-> p, outcome |-> IF FellBack(task[p]) THEN "fallback" ELSE "success",
     ec0 |-> state.error_count, clock |-> now]

(* Lines 94-104 as the coroutines see them: one step.  The wall clock may
   advance by d between line 95 and line 103. *)
Publish(p) ==
    /\ task[p].pc = "publish"
    /\ \E d \in 0..1 :
          /\ d = 0 \/ now + d <= MaxTime
          /\ now' = now + d
          /\ state' = Published(state, FellBack(task[p]),
                                IF FellBack(task[p]) THEN _get_fallback_time
                                ELSE task[p].market_time,
                                task[p].source, Dt(now + d))
    /\ last' = Ended(p)
    /\ committed' = state'
    /\ rd' = Noted(rd, state')
    /\ task' = [task EXCEPT ![p] = AfterCycle(task[p])]
    /\ UNCHANGED <<running, session, api>>

(* The same lines as the Flask thread sees them: one step per write. *)
PubErrorCount(p) ==
    /\ task[p].pc = "publish"
    /\ state' = WriteErrorCount(state, FellBack(task[p]))
    /\ last' = Ended(p)
    /\ task' = [task EXCEPT ![p].pc = "pub_mt",
                            ![p].market_time =
                                IF FellBack(task[p]) THEN _get_fallback_time ELSE @]
    /\ UNCHANGED <<running, session, now, rd, committed, api>>

PubMarketTime(p) ==
    /\ task[p].pc = "pub_mt"
    /\ state' = WriteMarketTime(state, task[p].market_time)
    /\ task' = [task EXCEPT ![p].pc = "pub_src"]
    /\ UNCHANGED <<running, session, now, rd, committed, last, api>>

PubSource(p) ==
    /\ task[p].pc = "pub_src"
    /\ state' = WriteSource(state, task[p].source)
    /\ task' = [task EXCEPT ![p].pc = "pub_lu"]
    /\ UNCHANGED <<running, session, now, rd, committed, last, api>>

PubLastUpdated(p) ==
    /\ task[p].pc = "pub_lu"
    /\ state' = WriteLastUpdated(state, Dt(now))
    /\ task' = [task EXCEPT ![p].pc = "pub_h"]
    /\ UNCHANGED <<running, session, now, rd, committed, last, api>>

PubHealthy(p) ==
    /\ task[p].pc = "pub_h"
    /\ state' = WriteHealthy(state)
    /\ committed' = state'
    /\ rd' = Noted(rd, state')
    /\ task' = [task EXCEPT ![p] = AfterCycle(task[p])]
    /\ UNCHANGED <<running, session, now, last, api>>

(* ------------------------------------------------------------------ *)
(* _polling_loop, start, stop.                                        *)
(* ------------------------------------------------------------------ *)

(* while self.running: (line 111), reached when the task first runs and
   after each sleep of lines 114 and 117. *)
LoopIterate(p) ==
    /\ task[p].pc \in {"loop", "sleep"}
    /\ ~Busy
    /\ session' = IF WhileRunning THEN EnterFetch ELSE session
    /\ task' = [task EXCEPT ![p] =
                   IF WhileRunning THEN BeginCycle(task[p], session'.cur)
                   ELSE [task[p] EXCEPT !.pc = "stopped"]]
    /\ UNCHANGED <<state, running, now, rd, committed, last, api>>

(* start() when self.running is false: lines 126-128 up to the first
   request of the priming cycle. *)
Start(p) ==
    /\ ~AlreadyRunning
    /\ ~Busy
    /\ task[p].pc = "idle"
    /\ \A q \in Procs : q < p => task[q].pc # "idle"
    /\ running' = TRUE
    /\ session' = _create_session
    /\ task' = [task EXCEPT ![p] = BeginCycle(task[p], session'.cur)]
    /\ api' = "start"
    /\ UNCHANGED <<state, now, rd, committed, last>>

(* start() when self.running is true: lines 122-124, a warning and return. *)
StartAgain ==
    /\ AlreadyRunning
    /\ ~Busy
    /\ api' = "again"
    /\ UNCHANGED <<state, running, session, now, task, rd, committed, last>>

(* stop(): lines 133-134. *)
Stop ==
    /\ ~Busy
    /\ running' = FALSE
    /\ session' = _close_session
    /\ api' = "stop"
    /\ UNCHANGED <<state, now, task, rd, committed, last>>

(* The wall clock advances. *)
Tick ==
    /\ now < MaxTime
    /\ now' = now + 1
    /\ UNCHANGED <<state, running, session, task, rd, committed, last, api>>

(* ------------------------------------------------------------------ *)
(* get_clock_data, on the Flask thread: one action per read of a field *)
(* of self.state.                                                      *)
(* ------------------------------------------------------------------ *)

(* The call. *)
ReadCall ==
    /\ rd.pc = "idle"
    /\ rd' = [Rd0 EXCEPT !.pc = "l138a", !.cands = {committed}]
    /\ UNCHANGED <<state, running, session, now, task, committed, last, api>>

(* Line 138: if not self.state.market_time or not self.state.last_updated *)
ClockNotInitialized == state.market_time = None \/ state.last_updated = None

(* Lines 139-145: the "Clock not initialized" result. *)
NotInitialized(d) ==
    [d EXCEPT !.pc = "done", !.result = "Clock not initialized",
              !.cands = {r \in @ : r.market_time = None \/ r.last_updated = None}]

(* Line 138, left operand: not self.state.market_time *)
Read138a ==
    /\ rd.pc = "l138a"
    /\ rd' = IF state.market_time = None THEN NotInitialized(rd)
             ELSE [rd EXCEPT !.pc = "l138b"]
    /\ UNCHANGED <<state, running, session, now, task, committed, last, api>>

(* Line 138, right operand: not self.state.last_updated *)
Read138b ==
    /\ rd.pc = "l138b"
    /\ rd' = IF state.last_updated = None THEN NotInitialized(rd)
             ELSE [rd EXCEPT !.pc = "l148"]
    /\ UNCHANGED <<state, running, session, now, task, committed, last, api>>

(* One of lines 148-152: field f of self.state goes into the result. *)
ReadField(from, f, to) ==
    /\ rd.pc = from
    /\ LET d == [rd EXCEPT ![f] = state[f], !.got = @ \cup {f}, !.pc = to,
                           !.result = IF to = "done" THEN "data" ELSE @]
       IN rd' = [d EXCEPT !.cands = {r \in @ : Agrees(r, d)}]
    /\ UNCHANGED <<state, running, session, now, task, committed, last, api>>

Read148 == ReadField("l148", "market_time", "l149")
Read149 == ReadField("l149", "source", "l150")
Read150 == ReadField("l150", "last_updated", "l151")
Read151 == ReadField("l151", "is_healthy", "l152")
Read152 == ReadField("l152", "error_count", "done")

(* def is_stale(self, threshold_seconds=None) (lines 155-163), in the
   state as it is. *)
is_stale(threshold_seconds) ==
    LET threshold == IF threshold_seconds = NoThreshold
                     THEN poll_interval * 2 ELSE threshold_seconds
    IN IF state.last_updated = None THEN TRUE
       ELSE Exceeds(TotalMs(Dt(now), state.last_updated), threshold * 1000)

(* A call of is_stale(t) and its result. *)
StaleCall(t) ==
    /\ rd.pc = "idle"
    /\ rd' = [Rd0 EXCEPT !.pc = "done", !.result = "stale", !.thr = t,
                         !.at = now, !.last_updated = state.last_updated,
                         !.isStale = is_stale(t)]
    /\ UNCHANGED <<state, running, session, now, task, committed, last, api>>

(* get_clock_health is called; ROMULUS_CLOCK is set (line 182). *)
HealthCall ==
    /\ rd.pc = "idle"
    /\ rd' = [Rd0 EXCEPT !.pc = "h185a"]
    /\ UNCHANGED <<state, running, session, now, task, committed, last, api>>

(* Line 185, left operand: ROMULUS_CLOCK.state.is_healthy; "and" goes on
   to the right operand only if it is true. *)
Health185a ==
    /\ rd.pc = "h185a"
    /\ rd' = [rd EXCEPT !.is_healthy = state.is_healthy, !.healthy = FALSE,
                        !.pc = IF state.is_healthy THEN "h185b" ELSE "h189"]
    /\ UNCHANGED <<state, running, session, now, task, committed, last, api>>

(* Line 185, right operand: not ROMULUS_CLOCK.is_stale() *)
Health185b ==
    /\ rd.pc = "h185b"
    /\ rd' = [rd EXCEPT !.healthy = ~is_stale(NoThreshold), !.pc = "h189"]
    /\ UNCHANGED <<state, running, session, now, task, committed, last, api>>

(* Line 189: "isStale": ROMULUS_CLOCK.is_stale() *)
Health189 ==
    /\ rd.pc = "h189"
    /\ rd' = [rd EXCEPT !.isStale = is_stale(NoThreshold), !.pc = "h190"]
    /\ UNCHANGED <<state, running, session, now, task, committed, last, api>>

(* Line 190: "errorCount" *)
Health190 ==
    /\ rd.pc = "h190"
    /\ rd' = [rd EXCEPT !.error_count = state.error_count, !.pc = "h191"]
    /\ UNCHANGED <<state, running, session, now, task, committed, last, api>>

(* Line 191: "lastUpdated", None if last_updated is None; no "error" key
   in the response. *)
Health191 ==
    /\ rd.pc = "h191"
    /\ rd' = [rd EXCEPT !.last_updated = state.last_updated, !.pc = "done",
                        !.result = "health"]
    /\ UNCHANGED <<state, running, session, now, task, committed, last, api>>

(* poll_interval seconds pass on the wall clock (the clock of this
   specification moves in steps of poll_interval). *)
Elapse ==
    /\ now + poll_interval <= MaxWait
    /\ now' = now + poll_interval
    /\ UNCHANGED <<state, running, session, task, rd, committed, last, api>>

(* The result is returned. *)
ReadReturn ==
    /\ rd.pc = "done"
    /\ rd' = Rd0
    /\ UNCHANGED <<state, running, session, now, task, committed, last, api>>

(* ------------------------------------------------------------------ *)
(* Specifications.                                                    *)
(* ------------------------------------------------------------------ *)

(* One step of coroutine p other than its start() call, as the coroutines
   see it, the network answering from the set R. *)
Run(p, R) ==
    \/ \E r \in R : Respond(p, r)
    \/ Retry(p)
    \/ Publish(p)
    \/ LoopIterate(p)

(* The program as main() runs it: init_romulus_clock calls start() once,
   stop() is called at shutdown. *)
Next ==
    \/ Start(1)
    \/ Stop
    \/ Run(1, Responses)
    \/ Raise(1)
    \/ Tick

Spec == Init /\ [][Next]_vars

(* The same without stop(), under the scheduling of the event loop: a
   coroutine that can run does run, a sleep ends, and a request ends (the
   session's total timeout is request_timeout). *)
NextLive ==
    \/ Start(1)
    \/ Run(1, Responses)
    \/ Raise(1)
    \/ Tick

LiveSpec == Init /\ [][NextLive]_vars /\ WF_vars(Run(1, Responses))

(* Any sequence of start() and stop() calls, each made when the one before
   has returned, MaxStarts of the start() calls finding self.running
   false.  The network answers with one time or times out. *)
ApiResponses == {r \in Responses : Kind(r) = "timeout" \/ r.ts = 2000}

(* Every start() called so far has returned (line 130). *)
Returned == \A q \in Procs : task[q].pc = "idle" \/ task[q].phase = "loop"

NextApi ==
    \/ \E p \in Procs : Returned /\ Start(p)
    \/ Returned /\ Stop
    \/ \E p \in Procs : Run(p, ApiResponses)

SpecApi == Init /\ [][NextApi]_vars

(* The program as main() runs it, stop() included, under the scheduling of
   the event loop. *)
StopSpec == Init /\ [][Next]_vars /\ WF_vars(Run(1, Responses))

(* start() and stop() called at any moment, also while an earlier start()
   is still in its priming cycle, which may raise.  The network answers
   with one time; a request fails only on a session stop() has closed. *)
CallsResponses == {r \in Responses : r.ts = 2000 \/ r.exc = "Exception"}

NextCalls ==
    \/ \E p \in Procs : Start(p)
    \/ StartAgain
    \/ Stop
    \/ \E p \in Procs : \E r \in CallsResponses :
          (r.exc = "Exception" => task[p].via \notin session.open) /\ Respond(p, r)
    \/ \E p \in Procs : Retry(p)
    \/ \E p \in Procs : Publish(p)
    \/ \E p \in Procs : LoopIterate(p)
    \/ \E p \in Procs : task[p].phase = "prime" /\ Raise(p)

SpecCalls == Init /\ [][NextCalls]_vars

(* The program as main() runs it, with the Flask thread serving
   get_clock_data: main() starts the thread when start() has returned. *)
ReadResponses == {r \in Responses : Kind(r) = "status" \/ r.ts = 2000}

NextRead ==
    \/ Start(1)
    \/ \E r \in ReadResponses : Respond(1, r)
    \/ Retry(1)
    \/ PubErrorCount(1)
    \/ PubMarketTime(1)
    \/ PubSource(1)
    \/ PubLastUpdated(1)
    \/ PubHealthy(1)
    \/ LoopIterate(1)
    \/ Tick
    \/ (task[1].phase = "loop" /\ ReadCall)
    \/ Read138a
    \/ Read138b
    \/ Read148
    \/ Read149
    \/ Read150
    \/ Read151
    \/ Read152
    \/ ReadReturn

SpecRead == Init /\ [][NextRead]_vars

(* The queries, called at any moment from the construction of the clock
   on, while the poller gets a time in every cycle and the wall clock
   passes.  Lines 94-104 are taken as one step here. *)
QueryResponses == {r \in Responses : r.ts = 2000}

NextQuery ==
    \/ Start(1)
    \/ \E r \in QueryResponses : Respond(1, r)
    \/ Publish(1)
    \/ LoopIterate(1)
    \/ Elapse
    \/ ReadCall
    \/ Read138a
    \/ Read138b
    \/ Read148
    \/ Read149
    \/ Read150
    \/ Read151
    \/ Read152
    \/ \E t \in Thresholds : StaleCall(t)
    \/ HealthCall
    \/ Health185a
    \/ Health185b
    \/ Health189
    \/ Health190
    \/ Health191
    \/ ReadReturn

SpecQuery == Init /\ [][NextQuery]_vars

(* ------------------------------------------------------------------ *)
(* Properties.                                                        *)
(* ------------------------------------------------------------------ *)

(* The fetch of pair j has returned None in the cycle task t is in: the
   loop over pair_list went past j, or ended at j with no time. *)
ReturnedNone(t, j) ==
    j < t.idx \/ (j = t.idx /\ t.pc = "publish" /\ FellBack(t))

(* The delays of a fetch that used all its attempts: 1, 2, ...,
   2^(max_retries-2). *)
FullBackoff == [k \in 1..(max_retries - 1) |-> Pow2(k - 1)]

(* C1: error_count is 0 after a cycle that got a time from a pair and one
   more than before after a cycle that fell back; nothing else (a cycle
   that raised, stop(), the clock) changes it. *)
C1_ErrorCounter ==
    /\ last.outcome = "none" => state.error_count = 0
    /\ last.outcome = "success" => state.error_count = 0
    /\ last.outcome = "fallback" => state.error_count = last.ec0 + 1
    /\ last.outcome = "raised" => state.error_count = last.ec0

(* A cycle got a time after two cycles in a row fell back. *)
C1_Witness ==
    last.outcome = "success" /\ last.ec0 = 2 /\ state.error_count = 0

C3_NoTornRead == (rd.pc = "done" /\ ~Busy) => rd.cands # {}

(* The polling tasks that can still write ClockState: inside a cycle, or
   about to test self.running while it is true. *)
AblePollers ==
    {p \in Procs :
        /\ task[p].phase = "loop"
        /\ \/ task[p].pc \in {"fetch", "backoff", "publish"}
           \/ (task[p].pc \in {"loop", "sleep"} /\ running)}

(* C4: at most one polling task is alive and able to write ClockState. *)
C4_OnePoller == Cardinality(AblePollers) <= 1

(* C5: in a cycle every pair before the one being tried has had all
   max_retries attempts, no pair after it has had any, and the time of the
   pair that answered is the one published. *)
C5_SourcesInOrder ==
    \A p \in Procs :
        LET t == task[p]
        IN /\ \A j \in Sources : j < t.idx => t.tried[j] = max_retries
           /\ \A j \in Sources : j > t.idx => t.tried[j] = 0
           /\ t.idx \in Sources => t.tried[t.idx] = t.attempt + 1
           /\ (t.pc = "publish" /\ ~FellBack(t)) => t.lastKind = "ok"
           /\ (last.by = p /\ last.outcome = "success" /\ t.pc \in {"loop", "sleep"})
                 => committed.market_time = t.market_time

(* The second pair answered after the first used up its attempts, and its
   time has been published. *)
C5_Witness ==
    /\ last.by = 1 /\ last.outcome = "success"
    /\ task[1].pc = "sleep" /\ task[1].idx = 2
    /\ task[1].tried = <<max_retries, 2>>
    /\ committed.market_time = FromTimestampMs(1500)

(* C6: a fetch whose every attempt failed with a retryable error made
   max_retries attempts and slept 1, 2, ..., 2^(max_retries-2) between
   them, 2^(max_retries-1) - 1 in all, and nothing after the last. *)
C6_RetryBackoff ==
    \A p \in Procs : \A j \in Sources :
        (ReturnedNone(task[p], j) /\ task[p].retr[j])
            => /\ task[p].tried[j] = max_retries
               /\ task[p].slept[j] = FullBackoff
               /\ SumSeq(task[p].slept[j]) = Pow2(max_retries - 1) - 1

(* Both pairs failed with retryable errors throughout. *)
C6_Witness ==
    /\ task[1].pc = "publish" /\ FellBack(task[1])
    /\ task[1].retr[1] /\ task[1].retr[2]
    /\ task[1].lastKind = "timeout"

(* C7 as stated: a pair that answers 200 without pairCreatedAt is not tried
   again in the cycle and no backoff follows the answer. *)
C7_MissingNotRetried ==
    \A p \in Procs :
        task[p].lastKind = "missing"
            => /\ task[p].pc # "backoff"
               /\ ~(task[p].pc = "fetch" /\ task[p].attempt > 0)

(* C7 as amended: a pair that answered 200 without pairCreatedAt and gave
   no time in the cycle was tried max_retries times, with the backoff of
   any other failure. *)
C7_MissingIsRetried ==
    \A p \in Procs : \A j \in Sources :
        (ReturnedNone(task[p], j) /\ ~task[p].retr[j])
            => /\ task[p].tried[j] = max_retries
               /\ task[p].slept[j] = FullBackoff

(* The first pair lacked pairCreatedAt and the cycle went on to the
   second. *)
C7_Witness ==
    /\ task[1].idx = 2 /\ ~task[1].retr[1]
    /\ task[1].tried[1] = max_retries

(* C8: a cycle in which every pair failed publishes source "system" and the
   clock reading of line 95 as market_time, not after last_updated; and a
   cycle publishes "system" only if every pair failed. *)
C8_Fallback ==
    /\ last.outcome = "fallback"
          => /\ committed.source = "system"
             /\ committed.market_time = Dt(last.clock)
             /\ DtLeq(committed.market_time, committed.last_updated)
             /\ DtLeq(committed.last_updated, Dt(now))
    /\ last.outcome = "success" => committed.source # "system"
    /\ \A p \in Procs :
          (last.by = p /\ last.outcome \in {"success", "fallback"}
             /\ task[p].pc \in {"loop", "sleep"} /\ committed.source = "system")
            => \A j \in Sources : task[p].tried[j] = max_retries

(* A fallback during which the clock advanced between lines 95 and 103. *)
C8_Witness ==
    /\ last.outcome = "fallback"
    /\ committed.source = "system"
    /\ committed.market_time.sec < committed.last_updated.sec

(* C9: a cycle of the polling loop that raised has published like a cycle
   in which every pair failed. *)
C9_RaisedCyclePublishes ==
    (last.outcome = "raised" /\ task[last.by].phase = "loop")
        => /\ state.source = "system"
           /\ state.error_count = last.ec0 + 1
           /\ state.is_healthy = IsHealthy(state.error_count)
           /\ state.market_time = Dt(last.clock)
           /\ DtLeq(Dt(last.clock), state.last_updated)

(* C10: with stop() never called, the polling loop, once created, ends
   every cycle (with a time, the fallback or an exception) in the sleep of
   poll_interval and begins another cycle after every sleep. *)
C10_LoopGoesOn ==
    /\ [](task[1].pc # "stopped")
    /\ (task[1].phase = "loop") ~> (task[1].pc = "sleep")
    /\ (task[1].pc = "sleep")
          ~> (task[1].pc = "fetch" /\ task[1].idx = 1 /\ task[1].attempt = 0)

(* A cycle has begun after a cycle of the loop that raised. *)
C10_Witness ==
    /\ last.outcome = "raised" /\ last.by = 1
    /\ task[1].phase = "loop" /\ task[1].pc = "fetch"

(* C11: no exception leaves start(): the priming cycle never raises out of
   it. *)
C11_StartNeverRaises == \A p \in Procs : task[p].pc # "raised"

(* C12: while self.running is false the polling loop begins no cycle, and
   once stop() has been called the loop exits.  At most one cycle ends
   after stop(), so the cap MaxErrors on error_count is kept out of the
   way by asking for room for one more fallback. *)
C12_NoCycleAfterStop ==
    /\ [][~running =>
            \A p \in Procs :
                task[p].pc \in {"loop", "sleep"} => task'[p].pc # "fetch"]_vars
    /\ (~running /\ task[1].phase = "loop" /\ state.error_count < MaxErrors)
          ~> (task[1].pc = "stopped")

(* stop() was called during a cycle of the loop, whose last request then
   failed on the closed session; the cycle is finishing. *)
C12_Witness ==
    /\ ~running /\ api = "stop"
    /\ task[1].phase = "loop" /\ task[1].pc = "publish"
    /\ task[1].via \notin session.open /\ task[1].lastKind = "error"

(* C13: the only session that can be open is the one self.session holds,
   and none is open while self.running is false: stop() closed it and
   nothing made another. *)
C13_SessionsReleased ==
    /\ session.open \subseteq {session.cur}
    /\ ~running => session.open = {}

(* Two start() calls made a session each, stop() has been called after
   them, both loops have exited and no session is open. *)
C13_Witness ==
    /\ session.made = 2 /\ session.open = {} /\ ~running
    /\ \A p \in 1..2 : task[p].pc = "stopped"

(* C14: is_stale(t) is true exactly when last_updated is None or the clock
   is more than t seconds past it, t being 2 * poll_interval when no
   threshold is given; 3 * poll_interval after the update the state is
   stale, 1 * poll_interval after it is not. *)
C14_IsStale ==
    rd.result = "stale" =>
        LET t == IF rd.thr = NoThreshold THEN 2 * poll_interval ELSE rd.thr
            age == rd.at * 1000 - (rd.last_updated.sec * 1000 + rd.last_updated.ms)
        IN /\ rd.isStale <=> (rd.last_updated = None \/ age > t * 1000)
           /\ (rd.thr = NoThreshold /\ rd.last_updated # None
                  /\ age = 3 * poll_interval * 1000) => rd.isStale
           /\ (rd.thr = NoThreshold /\ rd.last_updated # None
                  /\ age = poll_interval * 1000) => ~rd.isStale

(* is_stale() was called 3 * poll_interval after the last update. *)
C14_Witness ==
    /\ rd.result = "stale" /\ rd.thr = NoThreshold /\ rd.isStale
    /\ rd.last_updated # None
    /\ rd.at - rd.last_updated.sec = 3 * poll_interval

(* C16: a query answered while no cycle has completed returns the
   "Clock not initialized" error. *)
C16_ExplicitNotInitialized ==
    (rd.pc = "done" /\ committed = ClockState0
        /\ rd.result \in {"data", "Clock not initialized", "health"})
        => rd.result = "Clock not initialized"

(* C19: in a health response healthy is is_healthy and not isStale, for
   the isStale of the same response; the formula is the case the claim
   singles out: no response has healthy true together with isStale true. *)
C19_HealthConsistent ==
    (rd.pc = "done" /\ rd.result = "health") => ~(rd.healthy /\ rd.isStale)

(* C15: once a cycle has completed, market_time and last_updated are not
   None, so the test of line 138 fails and get_clock_data does not return
   "Clock not initialized". *)
C15_NeverAbsentAgain ==
    (committed # ClockState0 \/ last.outcome \in {"success", "fallback"})
        => /\ state.market_time # None
           /\ state.last_updated # None
           /\ ~ClockNotInitialized

(* After a cycle that fell back, a cycle of the loop raised and stop() was
   called. *)
C15_Witness ==
    /\ committed # ClockState0 /\ committed.source = "system"
    /\ last.outcome = "raised" /\ task[1].phase = "loop"
    /\ ~running /\ api = "stop"
    /\ ~ClockNotInitialized

(* The cycle that ended last got its time from a pair, and its task has
   not begun another. *)
SucceededLast(p) ==
    /\ last.by = p /\ last.outcome = "success"
    /\ task[p].pc \in {"loop", "sleep"}

(* C17 as stated: a cycle that got its time from pair j of pair_list
   publishes the chain_id of pair j as source, the instant of the
   epoch-millisecond value as market_time, and error_count 0. *)
C17_SourceIsChainId ==
    \A p \in Procs :
        SucceededLast(p)
            => /\ committed.source = chain_id[task[p].idx]
               /\ committed.market_time.sec * 1000 + committed.market_time.ms
                     = task[p].ts
               /\ committed.error_count = 0

(* C17 as amended: the source published is "Dexscreener", whichever pair
   gave the time. *)
C17_SourceIsProvider ==
    \A p \in Procs :
        SucceededLast(p)
            => /\ committed.source = "Dexscreener"
               /\ committed.market_time.sec * 1000 + committed.market_time.ms
                     = task[p].ts
               /\ committed.error_count = 0

(* The first pair timed out max_retries times, the second gave
   pairCreatedAt 1500, after a cycle that had fallen back. *)
C17_Witness ==
    /\ SucceededLast(1) /\ last.ec0 = 1
    /\ task[1].idx = 2 /\ task[1].ts = 1500
    /\ task[1].retr[1] /\ task[1].slept[1] = FullBackoff

(* C18: no step lowers last_updated. *)
C18_LastUpdatedMonotone ==
    [][DtLeq(state.last_updated, state'.last_updated)]_vars

(* The second poller published later than the first, which is still
   alive. *)
C18_Witness ==
    /\ last.by = 2 /\ last.outcome \in {"success", "fallback"}
    /\ task[1].phase = "loop" /\ task[1].pc # "stopped"
    /\ state.last_updated = Dt(1)

(* C20: a start() call made while self.running is true changes neither
   self.running, self.session, ClockState nor any coroutine. *)
C20_StartAgainNoEffect ==
    [][(running /\ ((\E p \in Procs : Start(p)) \/ StartAgain))
          => UNCHANGED <<state, running, session, task>>]_vars

(* start() has been called during a cycle of the running loop. *)
C20_Witness ==
    /\ api = "again" /\ running
    /\ task[1].phase = "loop" /\ task[1].pc = "fetch"

=============================================================================
